---- MODULE Spec2Model ----
(***************************************************************************)
(* Model of the narrative-state engine of la_magie: Game (src/main.py),    *)
(* LLM.generate / LLM.generate_json (src/llmlite.py) and the persistence   *)
(* and narration helpers of src/game_utils.py.                             *)
(*                                                                         *)
(* Representation.  A Python dict is a function whose DOMAIN is its key    *)
(* set, a list is a sequence, a str is a string; a text returned by the    *)
(* generation service is a sequence of tokens (braces, prose, white space  *)
(* and "key": value members), so that parsing is computed, not assumed.    *)
(* Values of reply fields have the type the prompt asks for (strings,      *)
(* lists of strings, booleans).                                            *)
(***************************************************************************)
EXTENDS Integers, Sequences, FiniteSets, TLC

VARIABLES
    game_state,         \* Game.game_state, the dict of src/main.py:17-26
    pc,                 \* position of run_game / _start_new_game
    choices,            \* local `choices` of run_game (src/main.py:472)
    savefile,           \* content of savegame.json on disk
    NARRATION_ENABLED,  \* game_utils.NARRATION_ENABLED
    NARRATION_VOICE,    \* game_utils.NARRATION_VOICE
    raised              \* "" or the exception that ended the process

vars == <<game_state, pc, choices, savefile, NARRATION_ENABLED, NARRATION_VOICE, raised>>

\* Number of player actions resolved in one run of the game (bounds len(history)).
MaxHistory == 2

-----------------------------------------------------------------------------
(* Python dicts and lists *)

EmptyDict == [k \in {} |-> ""]

\* d[k] = v
Put(d, k, v) == [x \in (DOMAIN d) \cup {k} |-> IF x = k THEN v ELSE d[x]]

\* k in d
HasKey(d, k) == k \in DOMAIN d

\* item in lst
InList(item, lst) == \E i \in 1..Len(lst) : lst[i] = item

\* lst.remove(item) for an item that is in lst: drops the first occurrence.
ListRemove(lst, item) ==
    LET first == CHOOSE i \in 1..Len(lst) :
                    /\ lst[i] = item
                    /\ \A j \in 1..(i - 1) : lst[j] # item
    IN  SubSeq(lst, 1, first - 1) \o SubSeq(lst, first + 1, Len(lst))

-----------------------------------------------------------------------------
(* Texts of the generation service *)

LBrace == [t |-> "{"]
RBrace == [t |-> "}"]
Prose  == [t |-> "prose"]
Space  == [t |-> " "]
Member(k, v) == [t |-> "member", key |-> k, val |-> v]
\* A value nested deeper than the interpreter's recursion limit, such as a
\* thousand opening brackets in a row.
Deep   == [t |-> "deep"]

\* str.strip(): drop leading and trailing white space.
Strip(text) ==
    LET solid == {i \in 1..Len(text) : text[i].t # " "}
    IN  IF solid = {} THEN <<>>
        ELSE LET lo == CHOOSE i \in solid : \A j \in solid : i <= j
                 hi == CHOOSE i \in solid : \A j \in solid : j <= i
             IN  SubSeq(text, lo, hi)

\* str.find / str.rfind with Python's 0-based result, -1 when absent.
Find(text, tok) ==
    LET hits == {i \in 1..Len(text) : text[i].t = tok}
    IN  IF hits = {} THEN -1
        ELSE (CHOOSE i \in hits : \A j \in hits : i <= j) - 1

RFind(text, tok) ==
    LET hits == {i \in 1..Len(text) : text[i].t = tok}
    IN  IF hits = {} THEN -1
        ELSE (CHOOSE i \in hits : \A j \in hits : j <= i) - 1

\* text[a:b] for 0 <= a < b <= len(text)
Slice(text, a, b) == SubSeq(text, a + 1, b)

\* json.loads on a text: an object is an opening brace, members, a closing
\* brace (white space allowed around and between); anything else is a
\* JSONDecodeError.  A repeated key keeps its last value.
JsonLoads(text) ==
    LET s == Strip(text)
        n == Len(s)
        inner == {i \in 2..(n - 1) : s[i].t # " "}
    IN  IF /\ n >= 2
           /\ s[1].t = "{"
           /\ s[n].t = "}"
           /\ \A i \in inner : s[i].t = "member"
        THEN [ok |-> TRUE,
              value |-> [k \in {s[i].key : i \in inner} |->
                            s[CHOOSE i \in inner :
                                /\ s[i].key = k
                                /\ \A j \in inner : s[j].key = k => j <= i].val]]
        ELSE [ok |-> FALSE]

\* The exception json.loads raises on a text, "" when it returns.  The
\* scanner reads from the left: a value nested too deep raises
\* RecursionError when the scanner reaches it, as the whole text or as the
\* value of a member of the object; any other text that is no document
\* raises JSONDecodeError at the first character that is out of place.
JsonLoadsError(text) ==
    LET s == Strip(text)
        reached(i) == \/ i = 1
                      \/ /\ s[1].t = "{"
                         /\ \A j \in 2..(i - 1) : s[j].t \in {"member", " "}
    IN  IF JsonLoads(text).ok THEN ""
        ELSE IF \E i \in 1..Len(s) : s[i].t = "deep" /\ reached(i)
             THEN "RecursionError"
             ELSE "JSONDecodeError"

\* LLM.generate: the stripped content, or "" when the API call raised.
Generate(resp) == IF resp.ok THEN Strip(resp.content) ELSE <<>>

\* LLM.generate_json: strict parse, then the first-brace..last-brace substring,
\* then {}.
GenerateJson(resp) ==
    LET response_text == Generate(resp)
        strict == JsonLoads(response_text)
        start_idx == Find(response_text, "{")
        end_idx == RFind(response_text, "}") + 1
    IN  IF strict.ok THEN strict.value
        ELSE IF start_idx >= 0 /\ end_idx > start_idx
             THEN LET recovered == JsonLoads(Slice(response_text, start_idx, end_idx))
                  IN  IF recovered.ok THEN recovered.value ELSE EmptyDict
             ELSE EmptyDict

\* The exception LLM.generate_json lets through, "" when it returns.  The
\* strict parse is guarded by `except json.JSONDecodeError` (src/llmlite.py:87),
\* the parse of the substring by `except Exception` (src/llmlite.py:100).
GenerateJsonRaises(resp) ==
    LET error == JsonLoadsError(Generate(resp))
    IN  IF error \in {"", "JSONDecodeError"} THEN "" ELSE error

-----------------------------------------------------------------------------
(* Replies of the generation service, as the inputs of the four intents.   *)
(* Each input records what was sent (kind, members) next to the response   *)
(* the client receives (resp).                                             *)

ServiceFailure == [kind |-> "failure", members |-> <<>>, resp |-> [ok |-> FALSE]]
EmptyReply     == [kind |-> "empty", members |-> <<>>,
                   resp |-> [ok |-> TRUE, content |-> <<Space>>]]
Unparseable(text) == [kind |-> "unparseable", members |-> <<>>,
                      resp |-> [ok |-> TRUE, content |-> text]]
\* The document alone.
JsonReply(ms) == [kind |-> "json", members |-> ms,
                  resp |-> [ok |-> TRUE, content |-> <<LBrace>> \o ms \o <<RBrace, Space>>]]
\* The document inside prose.
WrappedReply(ms) == [kind |-> "json", members |-> ms,
                     resp |-> [ok |-> TRUE,
                               content |-> <<Prose, LBrace>> \o ms \o <<RBrace, Prose>>]]

\* Texts that hold no document: prose, an unclosed brace, a closing brace
\* before the opening one, prose between braces, two documents in a row.
BadTexts ==
    << Unparseable(<<Prose>>),
       Unparseable(<<Prose, LBrace, Member("theme", "Haunted crypt")>>),
       Unparseable(<<RBrace, Prose, LBrace>>),
       Unparseable(<<LBrace, Prose, RBrace>>),
       Unparseable(<<LBrace, RBrace, Prose, LBrace, RBrace>>) >>

NoReply == <<ServiceFailure, EmptyReply, Unparseable(<<Prose, LBrace, Prose>>)>>

\* The response with no character in it.
EmptyText == [kind |-> "empty", members |-> <<>>, resp |-> [ok |-> TRUE, content |-> <<>>]]
\* The document alone, with white space around the braces.
SpacedReply(ms) == [kind |-> "json", members |-> ms,
                    resp |-> [ok |-> TRUE,
                              content |-> <<Space, LBrace, Space>> \o ms \o <<Space, RBrace, Space>>]]
\* The document after prose, and the document before prose.
PrefixedReply(ms) == [kind |-> "json", members |-> ms,
                      resp |-> [ok |-> TRUE, content |-> <<Prose, LBrace>> \o ms \o <<RBrace>>]]
SuffixedReply(ms) == [kind |-> "json", members |-> ms,
                      resp |-> [ok |-> TRUE, content |-> <<LBrace>> \o ms \o <<RBrace, Prose>>]]
\* A text that holds a value nested too deep, and no document.
DeepReply(text) == [kind |-> "deep", members |-> <<>>, resp |-> [ok |-> TRUE, content |-> text]]

\* What the input's document says, independently of any parsing.
Says(reply, k) == \E i \in 1..Len(reply.members) : reply.members[i].key = k
Said(reply, k) ==
    reply.members[CHOOSE i \in 1..Len(reply.members) : reply.members[i].key = k].val

GeneratedGoal == "Find the crypt key"
NextGoal      == "Open the crypt"

WorldReplies ==
    NoReply \o BadTexts \o
    << JsonReply(<<>>),
       JsonReply(<<Member("theme", "Haunted crypt")>>),
       JsonReply(<<Member("theme", "Haunted crypt"), Member("initial_goal", GeneratedGoal)>>),
       WrappedReply(<<Member("theme", "Haunted crypt"), Member("initial_goal", GeneratedGoal)>>) >>

\* Replies to the world prompt in every shape generate_json tells apart:
\* no response, no text, texts without a document, the document alone, the
\* document in prose, a key written twice, and values nested too deep
\* outside braces, inside the braces of a text that starts with prose, and
\* inside a document.
ParseReplies ==
    <<ServiceFailure, EmptyReply, EmptyText>> \o BadTexts \o
    << Unparseable(<<Prose, LBrace, Prose>>),
       Unparseable(<<RBrace>>),
       Unparseable(<<LBrace, Member("theme", "Haunted crypt"), RBrace, RBrace>>),
       JsonReply(<<>>),
       JsonReply(<<Member("theme", "Haunted crypt")>>),
       SpacedReply(<<Member("theme", "Sunken city"), Member("initial_goal", GeneratedGoal)>>),
       JsonReply(<<Member("theme", "Haunted crypt"), Member("theme", "Frozen keep")>>),
       WrappedReply(<<Member("theme", "Haunted crypt"), Member("initial_goal", GeneratedGoal)>>),
       PrefixedReply(<<Member("theme", "Burning forest")>>),
       SuffixedReply(<<Member("theme", "Glass desert")>>),
       DeepReply(<<Prose, LBrace, Deep, RBrace>>),
       DeepReply(<<Prose, Deep>>),
       DeepReply(<<Deep>>),
       DeepReply(<<LBrace, Member("theme", "Haunted crypt"), Deep, RBrace>>) >>

PlayerName  == Member("player_name", "Mira")
PlayerBack  == Member("player_background", "A runaway scribe")
PlayerItems == Member("starting_items", <<"torch">>)
PlayerLoc   == Member("starting_location", "Crypt Gate")
PlayerDesc  == Member("location_description", "A rusted gate.")

PlayerReplies ==
    NoReply \o
    << JsonReply(<<PlayerName, PlayerBack, PlayerItems, PlayerLoc, PlayerDesc>>),
       WrappedReply(<<PlayerName, PlayerBack, PlayerItems, PlayerLoc, PlayerDesc>>),
       JsonReply(<<PlayerBack, PlayerItems, PlayerLoc, PlayerDesc>>),
       JsonReply(<<PlayerName>>),
       JsonReply(<<PlayerName, PlayerBack>>),
       JsonReply(<<PlayerName, PlayerBack, PlayerItems>>),
       JsonReply(<<PlayerName, PlayerBack, PlayerItems, PlayerLoc>>) >>

ChoiceReplies ==
    NoReply \o
    << JsonReply(<<Member("choices", <<"Explore deeper into the dungeon", "Read the runes", "Light the torch", "Go back">>)>>),
       WrappedReply(<<Member("choices", <<"Explore deeper into the dungeon", "Read the runes", "Light the torch", "Go back">>)>>),
       JsonReply(<<Member("choices", <<"Open the gate", "Read the runes", "Light the torch">>)>>),
       JsonReply(<<Member("choices", <<"Open the gate", "Read the runes", "Light the torch", "Go back", "Wait">>)>>),
       JsonReply(<<Member("choices", <<>>)>>),
       JsonReply(<<Member("options", <<"Open the gate", "Read the runes", "Light the torch", "Go back">>)>>) >>

Narrative(text) == Member("action_result", text)

\* The replies to process_player_action of a run with every menu entry.
BasicReplies ==
    << ServiceFailure,
       JsonReply(<<Narrative("You find a key."), Member("items_gained", <<"key">>),
                   Member("character_encountered", "Old Sage")>>),
       JsonReply(<<Narrative("You step into the vault."), Member("goal_completed", TRUE),
                   Member("new_goal", NextGoal), Member("new_location", "Vault")>>) >>

\* The replies to process_player_action: no outcome (the last of them a
\* document with every field but action_result), then outcomes that differ in
\* one or two optional fields.
OutcomeReplies ==
    NoReply \o
    << JsonReply(<<Member("items_gained", <<"key">>), Member("goal_completed", TRUE),
                   Member("new_goal", NextGoal), Member("new_location", "Vault"),
                   Member("location_description", "A cold vault."),
                   Member("character_encountered", "Old Sage"),
                   Member("items_lost", <<"torch">>)>>),
       JsonReply(<<Narrative("You look around.")>>),
       WrappedReply(<<Narrative("You step into the vault."), Member("new_location", "Vault"),
                      Member("location_description", "A cold vault.")>>),
       JsonReply(<<Narrative("You walk on."), Member("new_location", "Stairs")>>),
       JsonReply(<<Narrative("You stay."), Member("new_location", ""),
                   Member("location_description", "A cold vault.")>>),
       JsonReply(<<Narrative("You find a key and a gem."), Member("items_gained", <<"key", "gem">>)>>),
       JsonReply(<<Narrative("You find a torch."), Member("items_gained", <<"torch">>),
                   Member("items_lost", <<>>)>>),
       JsonReply(<<Narrative("You have no wand to lose."), Member("items_lost", <<"wand">>)>>),
       JsonReply(<<Narrative("You drop the torch."), Member("items_lost", <<"wand", "torch">>)>>),
       JsonReply(<<Narrative("The gem crumbles."), Member("items_gained", <<"gem">>),
                   Member("items_lost", <<"gem">>)>>),
       JsonReply(<<Narrative("You meet the sage."), Member("character_encountered", "Old Sage"),
                   Member("location_description", "A cold vault.")>>),
       JsonReply(<<Narrative("You meet the guardian."),
                   Member("character_encountered", "Temple Guardian")>>),
       JsonReply(<<Narrative("It is done."), Member("goal_completed", TRUE)>>),
       JsonReply(<<Narrative("On to the crypt."), Member("goal_completed", TRUE),
                   Member("new_goal", NextGoal)>>),
       JsonReply(<<Narrative("Nothing is left to do."), Member("goal_completed", TRUE),
                   Member("new_goal", "")>>),
       JsonReply(<<Narrative("Not yet."), Member("goal_completed", FALSE),
                   Member("new_goal", NextGoal)>>),
       JsonReply(<<Narrative("A new idea."), Member("new_goal", NextGoal)>>) >>

-----------------------------------------------------------------------------
(* Game: construction and new-game setup (src/main.py) *)

\* Game.__init__
\* Outcomes that drive several steps of process_player_action at once.
OrderReplies ==
    << ServiceFailure,
       JsonReply(<<Narrative("You trade the torch for a key."),
                   Member("new_location", "Vault"),
                   Member("location_description", "A cold vault."),
                   Member("items_gained", <<"key">>),
                   Member("items_lost", <<"torch">>),
                   Member("character_encountered", "Old Sage"),
                   Member("goal_completed", TRUE),
                   Member("new_goal", NextGoal)>>),
       JsonReply(<<Narrative("The gem crumbles."),
                   Member("items_gained", <<"gem">>), Member("items_lost", <<"gem">>)>>),
       JsonReply(<<Narrative("You swap one torch for another."),
                   Member("items_gained", <<"torch">>), Member("items_lost", <<"torch">>),
                   Member("character_encountered", "Temple Guardian")>>),
       JsonReply(<<Narrative("You find a key."),
                   Member("items_gained", <<"key">>), Member("items_lost", <<"wand">>),
                   Member("goal_completed", TRUE)>>) >>

NewGameState ==
    [k \in {"story_context", "player", "current_location", "inventory",
            "characters_met", "current_goal", "completed_goals", "history"} |->
        CASE k = "story_context"  -> EmptyDict
          [] k = "player"         -> EmptyDict
          [] k = "current_location" -> ""
          [] k = "current_goal"   -> ""
          [] OTHER                -> <<>>]

\* Game._get_default_game_context
DefaultGameContext ==
    [theme |-> "Ancient cursed temple",
     conflict |-> "A powerful artifact is causing monsters to appear",
     possible_solutions |-> <<"Destroy the artifact",
                              "Return the artifact to its rightful place",
                              "Use the artifact to seal the temple">>,
     characters |-> <<[name |-> "Old Sage",
                       description |-> "A wise old man who knows the temple's history",
                       motivation |-> "Wants to preserve knowledge",
                       help |-> "Can provide information about the artifact"],
                      [name |-> "Temple Guardian",
                       description |-> "A magical construct protecting the temple",
                       motivation |-> "Follows ancient orders to protect the artifact",
                       hinder |-> "Will attack anyone trying to take the artifact"],
                      [name |-> "Treasure Hunter",
                       description |-> "A rival explorer seeking the artifact",
                       motivation |-> "Wants to sell the artifact for profit",
                       hinder |-> "Will try to steal the artifact from the player"]>>,
     failure_cases |-> <<"Getting trapped in the temple forever",
                         "Releasing an ancient evil by misusing the artifact">>,
     main_goal |-> "Find and deal with the cursed artifact to stop the monster invasion",
     initial_goal |-> "Explore the temple entrance and find clues about the artifact's location"]

PlaceholderGoal == "Explore the area and discover your purpose"
DefaultGoal     == "Find the source of the monsters and deal with the artifact"

\* initialize_game without the fallback: the reply's document is kept even
\* when it is empty.
InitializeGameWith_NoFallback(gs, story_context) ==
    Put(Put(gs, "story_context", story_context),
        "current_goal",
        IF HasKey(story_context, "initial_goal")
        THEN story_context["initial_goal"]
        ELSE PlaceholderGoal)

\* Game.initialize_game, after the generate_json call returned story_context.
InitializeGameWith(gs, story_context) ==
    IF DOMAIN story_context # {}
    THEN Put(Put(gs, "story_context", story_context),
             "current_goal",
             IF HasKey(story_context, "initial_goal")
             THEN story_context["initial_goal"]
             ELSE PlaceholderGoal)
    ELSE Put(Put(gs, "story_context", DefaultGameContext), "current_goal", DefaultGoal)

\* Game._create_default_player
CreateDefaultPlayer(gs) ==
    Put(Put(Put(Put(gs,
        "player", [name |-> "Adventurer",
                   background |-> "A brave explorer seeking fortune and glory"]),
        "inventory", <<"torch", "rope", "dagger">>),
        "current_location", "Temple Entrance"),
        "location_description",
        "A massive stone doorway covered in ancient runes. The air feels heavy with magic.")

\* Game.create_player, after the generate_json call returned player_data: the
\* state it leaves and the exception it raises ("" for none).  The four
\* assignments run in order; a subscript of a missing key raises KeyError and
\* keeps the assignments made before it.
CreatePlayerWith(gs, player_data) ==
    IF DOMAIN player_data # {} /\ HasKey(player_data, "player_name")
    THEN IF ~HasKey(player_data, "player_background")
         THEN [gs |-> gs, raised |-> "KeyError"]
         ELSE LET gs1 == Put(gs, "player",
                             [name |-> player_data["player_name"],
                              background |-> player_data["player_background"]])
              IN  IF ~HasKey(player_data, "starting_items")
                  THEN [gs |-> gs1, raised |-> "KeyError"]
                  ELSE LET gs2 == Put(gs1, "inventory", player_data["starting_items"])
                       IN  IF ~HasKey(player_data, "starting_location")
                           THEN [gs |-> gs2, raised |-> "KeyError"]
                           ELSE LET gs3 == Put(gs2, "current_location",
                                               player_data["starting_location"])
                                IN  IF ~HasKey(player_data, "location_description")
                                    THEN [gs |-> gs3, raised |-> "KeyError"]
                                    ELSE [gs |-> Put(gs3, "location_description",
                                                     player_data["location_description"]),
                                          raised |-> ""]
    ELSE [gs |-> CreateDefaultPlayer(gs), raised |-> ""]

DefaultTitle == [title1 |-> "DUNGEON", title2 |-> <<"EXPLORER">>]

DefaultChoices ==
    <<"Explore deeper into the dungeon", "Search the current area",
      "Check your inventory", "Rest and recover">>

\* get_player_choices without the length test.
GetPlayerChoicesWith_AnyLength(choices_data) ==
    IF DOMAIN choices_data # {} /\ HasKey(choices_data, "choices")
    THEN choices_data["choices"]
    ELSE DefaultChoices

\* Game.get_player_choices, after the generate_json call returned choices_data.
GetPlayerChoicesWith(choices_data) ==
    IF /\ DOMAIN choices_data # {}
       /\ HasKey(choices_data, "choices")
       /\ Len(choices_data["choices"]) = 4
    THEN choices_data["choices"]
    ELSE DefaultChoices

-----------------------------------------------------------------------------
(* Game.process_player_action: the steps applied to an accepted outcome *)

\* The reply is accepted as an outcome (src/main.py:202).
Accepted(action_result) ==
    DOMAIN action_result # {} /\ HasKey(action_result, "action_result")

\* history replaced by the new entry instead of extended by it.
StepHistory_Overwrite(gs, action, action_result) ==
    Put(gs, "history", <<[action |-> action, result |-> action_result["action_result"]]>>)

\* Update game history
StepHistory(gs, action, action_result) ==
    Put(gs, "history",
        Append(gs["history"],
               [action |-> action, result |-> action_result["action_result"]]))

\* A move without a description keeps the description of the place left.
StepLocation_KeepsDescription(gs, action_result) ==
    IF HasKey(action_result, "new_location") /\ action_result["new_location"] # ""
    THEN Put(Put(gs, "current_location", action_result["new_location"]),
             "location_description",
             IF HasKey(action_result, "location_description")
             THEN action_result["location_description"]
             ELSE gs["location_description"])
    ELSE gs

\* Update location if player moved
StepLocation(gs, action_result) ==
    IF HasKey(action_result, "new_location") /\ action_result["new_location"] # ""
    THEN Put(Put(gs, "current_location", action_result["new_location"]),
             "location_description",
             IF HasKey(action_result, "location_description")
             THEN action_result["location_description"]
             ELSE "")
    ELSE gs

\* gained items put in front of the inventory.
StepItemsGained_Prepend(gs, action_result) ==
    IF HasKey(action_result, "items_gained") /\ action_result["items_gained"] # <<>>
    THEN Put(gs, "inventory", action_result["items_gained"] \o gs["inventory"])
    ELSE gs

\* Update inventory: inventory.extend(gained_items)
StepItemsGained(gs, action_result) ==
    IF HasKey(action_result, "items_gained") /\ action_result["items_gained"] # <<>>
    THEN Put(gs, "inventory", gs["inventory"] \o action_result["items_gained"])
    ELSE gs

\* Removal by position without the membership test: a missing item gives
\* position -1, which deletes the last element.
RECURSIVE RemoveLost_ByIndex(_, _)
RemoveLost_ByIndex(inventory, lost_items) ==
    IF lost_items = <<>> THEN inventory
    ELSE RemoveLost_ByIndex(
            IF InList(Head(lost_items), inventory)
            THEN ListRemove(inventory, Head(lost_items))
            ELSE SubSeq(inventory, 1, Len(inventory) - 1),
            Tail(lost_items))

\* for item in lost_items: if item in inventory: inventory.remove(item)
RECURSIVE RemoveLost(_, _)
RemoveLost(inventory, lost_items) ==
    IF lost_items = <<>> THEN inventory
    ELSE RemoveLost(IF InList(Head(lost_items), inventory)
                    THEN ListRemove(inventory, Head(lost_items))
                    ELSE inventory,
                    Tail(lost_items))

StepItemsLost(gs, action_result) ==
    IF HasKey(action_result, "items_lost") /\ action_result["items_lost"] # <<>>
    THEN Put(gs, "inventory", RemoveLost(gs["inventory"], action_result["items_lost"]))
    ELSE gs

\* The character is appended without the membership test.
StepCharacter_NoTest(gs, action_result) ==
    IF /\ HasKey(action_result, "character_encountered")
       /\ action_result["character_encountered"] # ""
    THEN Put(gs, "characters_met",
             Append(gs["characters_met"], action_result["character_encountered"]))
    ELSE gs

\* Update characters met
StepCharacter(gs, action_result) ==
    IF /\ HasKey(action_result, "character_encountered")
       /\ action_result["character_encountered"] # ""
       /\ ~InList(action_result["character_encountered"], gs["characters_met"])
    THEN Put(gs, "characters_met",
             Append(gs["characters_met"], action_result["character_encountered"]))
    ELSE gs

\* The completed goal is appended without the membership test.
StepGoal_NoTest(gs, action_result) ==
    IF HasKey(action_result, "goal_completed") /\ action_result["goal_completed"]
    THEN LET completed_goal == gs["current_goal"]
             gs1 == IF completed_goal # ""
                    THEN Put(gs, "completed_goals",
                             Append(gs["completed_goals"], completed_goal))
                    ELSE gs
         IN  IF HasKey(action_result, "new_goal") /\ action_result["new_goal"] # ""
             THEN Put(gs1, "current_goal", action_result["new_goal"])
             ELSE gs1
    ELSE gs

\* A supplied new_goal becomes the goal whether or not the goal was completed.
StepGoal_AnyNewGoal(gs, action_result) ==
    LET gs1 == IF /\ HasKey(action_result, "goal_completed")
                  /\ action_result["goal_completed"]
                  /\ gs["current_goal"] # ""
                  /\ ~InList(gs["current_goal"], gs["completed_goals"])
               THEN Put(gs, "completed_goals",
                        Append(gs["completed_goals"], gs["current_goal"]))
               ELSE gs
    IN  IF HasKey(action_result, "new_goal") /\ action_result["new_goal"] # ""
        THEN Put(gs1, "current_goal", action_result["new_goal"])
        ELSE gs1

\* Update goal if completed
StepGoal(gs, action_result) ==
    IF HasKey(action_result, "goal_completed") /\ action_result["goal_completed"]
    THEN LET completed_goal == gs["current_goal"]
             gs1 == IF /\ completed_goal # ""
                       /\ ~InList(completed_goal, gs["completed_goals"])
                    THEN Put(gs, "completed_goals",
                             Append(gs["completed_goals"], completed_goal))
                    ELSE gs
         IN  IF HasKey(action_result, "new_goal") /\ action_result["new_goal"] # ""
             THEN Put(gs1, "current_goal", action_result["new_goal"])
             ELSE gs1
    ELSE gs

\* The accepted branch with the items lost removed before the items gained
\* are added.
ApplyOutcome_LossesFirst(gs, action, action_result) ==
    StepGoal(
      StepCharacter(
        StepItemsGained(
          StepItemsLost(
            StepLocation(
              StepHistory(gs, action, action_result),
              action_result),
            action_result),
          action_result),
        action_result),
      action_result)

\* The accepted branch, src/main.py:203-245.
ApplyOutcome(gs, action, action_result) ==
    StepGoal(
      StepCharacter(
        StepItemsLost(
          StepItemsGained(
            StepLocation(
              StepHistory(gs, action, action_result),
              action_result),
            action_result),
          action_result),
        action_result),
      action_result)

\* The accepted branch up to the goal update, src/main.py:203-234.
ApplyBeforeGoal(gs, action, action_result) ==
    StepCharacter(
      StepItemsLost(
        StepItemsGained(
          StepLocation(
            StepHistory(gs, action, action_result),
            action_result),
          action_result),
        action_result),
      action_result)

\* The goal update subscripts game_state["current_goal"] and, for a
\* non-empty goal, game_state["completed_goals"] (src/main.py:238-239): a
\* missing key raises KeyError.
GoalUpdateRaises(gs, action_result) ==
    /\ HasKey(action_result, "goal_completed") /\ action_result["goal_completed"]
    /\ \/ ~HasKey(gs, "current_goal")
       \/ gs["current_goal"] # "" /\ ~HasKey(gs, "completed_goals")

\* The six steps of the accepted branch by name, in the order of
\* src/main.py:203-245.
ListedOrder ==
    <<"history", "location", "items_gained", "items_lost", "character", "goal">>

Step(name, gs, action, action_result) ==
    CASE name = "history"      -> StepHistory(gs, action, action_result)
      [] name = "location"     -> StepLocation(gs, action_result)
      [] name = "items_gained" -> StepItemsGained(gs, action_result)
      [] name = "items_lost"   -> StepItemsLost(gs, action_result)
      [] name = "character"    -> StepCharacter(gs, action_result)
      [] name = "goal"         -> StepGoal(gs, action_result)

\* The steps applied one after the other in the order given.
RECURSIVE ApplyInOrder(_, _, _, _)
ApplyInOrder(order, gs, action, action_result) ==
    IF order = <<>>
    THEN gs
    ELSE ApplyInOrder(Tail(order), Step(Head(order), gs, action, action_result),
                      action, action_result)

FallbackResult == "Nothing significant happened."

\* The else branch, src/main.py:252-257.
ApplyFallback(gs, action) ==
    Put(gs, "history",
        Append(gs["history"], [action |-> action, result |-> FallbackResult]))

\* process_player_action with only the history entry guarded: the optional
\* fields of a rejected reply are applied all the same.
ProcessPlayerActionWith_Unguarded(gs, action, action_result) ==
    IF Accepted(action_result)
    THEN ApplyOutcome(gs, action, action_result)
    ELSE StepGoal(
           StepCharacter(
             StepItemsLost(
               StepItemsGained(
                 StepLocation(ApplyFallback(gs, action), action_result),
                 action_result),
               action_result),
             action_result),
           action_result)

\* Game.process_player_action, after the generate_json call returned action_result.
ProcessPlayerActionWith(gs, action, action_result) ==
    IF Accepted(action_result)
    THEN ApplyOutcome(gs, action, action_result)
    ELSE ApplyFallback(gs, action)

-----------------------------------------------------------------------------
(* Persistence, narration and title (src/game_utils.py, src/main.py) *)

\* A JSON document as json.dump writes it and json.load reads it: a string,
\* an array of documents, or an object whose members are written one after
\* the other, each a key and a document.
JStr(s)       == [j |-> "string", s |-> s]
JArr(items)   == [j |-> "array", items |-> items]
JObj(members) == [j |-> "object", members |-> members]

\* json.dump writes a value by its Python type.  In the states of the game
\* the type of a value follows from its key: str, list of str, list of dict,
\* or dict.
StringKeys ==
    {"current_location", "location_description", "current_goal", "theme", "conflict",
     "main_goal", "initial_goal", "name", "background", "description", "motivation",
     "help", "hinder", "action", "result", "title1", "title2"}
StringListKeys ==
    {"inventory", "characters_met", "completed_goals", "possible_solutions", "failure_cases"}
ObjectListKeys == {"history", "characters"}
ObjectKeys == {"story_context", "player", "custom_title"}

\* The order in which the members of an object are written.
KeyOrder ==
    <<"story_context", "player", "current_location", "inventory", "characters_met",
      "current_goal", "completed_goals", "history", "location_description", "custom_title",
      "theme", "conflict", "possible_solutions", "characters", "failure_cases",
      "main_goal", "initial_goal", "name", "background", "description", "motivation",
      "help", "hinder", "action", "result", "title1", "title2">>

RECURSIVE JsonEncode(_, _)
\* The object json.dump writes for a dict.
EncodeObject(d) ==
    LET present(k) == k \in DOMAIN d
        keys == SelectSeq(KeyOrder, present)
    IN  JObj([i \in 1..Len(keys) |-> [key |-> keys[i], val |-> JsonEncode(keys[i], d[keys[i]])]])

\* The document json.dump writes for the value v held under key k.
JsonEncode(k, v) ==
    CASE k \in StringKeys     -> JStr(v)
      [] k \in StringListKeys -> JArr([i \in 1..Len(v) |-> JStr(v[i])])
      [] k \in ObjectListKeys -> JArr([i \in 1..Len(v) |-> EncodeObject(v[i])])
      [] k \in ObjectKeys     -> EncodeObject(v)

\* json.dump(game_state, f, indent=2)
JsonDump(gs) == EncodeObject(gs)

\* json.load(f): the Python value of a document; of two members with the same
\* key the later one is kept.
RECURSIVE JsonLoad(_)
JsonLoad(doc) ==
    CASE doc.j = "string" -> doc.s
      [] doc.j = "array"  -> [i \in 1..Len(doc.items) |-> JsonLoad(doc.items[i])]
      [] doc.j = "object" ->
            LET ms == doc.members
                last(k) == CHOOSE i \in 1..Len(ms) :
                              /\ ms[i].key = k
                              /\ \A n \in (i + 1)..Len(ms) : ms[n].key # k
            IN  [k \in {ms[i].key : i \in 1..Len(ms)} |-> JsonLoad(ms[last(k)].val)]

\* savegame.json: absent, holding a JSON document, or holding text that is
\* not one (a file cut short).
NoFile      == [state |-> "absent", doc |-> JObj(<<>>)]
PartialFile == [state |-> "partial", doc |-> JObj(<<>>)]
Written(gs) == [state |-> "written", doc |-> JsonDump(gs)]

\* save_game returning True after the write failed.
SaveGame_ReportsSuccess(file, gs, fault) ==
    CASE fault = "open"  -> [file |-> file, result |-> FALSE]
      [] fault = "write" -> [file |-> PartialFile, result |-> TRUE]
      [] OTHER           -> [file |-> Written(gs), result |-> TRUE]

\* save_game opening the file to append: the new document is written after
\* what the file already holds.
SaveGame_Append(file, gs, fault) ==
    CASE fault = "open"  -> [file |-> file, result |-> FALSE]
      [] fault = "write" -> [file |-> PartialFile, result |-> FALSE]
      [] OTHER           -> [file |-> IF file.state = "absent" THEN Written(gs) ELSE PartialFile,
                             result |-> TRUE]

\* game_utils.save_game: open(filename, 'w') truncates the file, json.dump
\* writes it.  `fault` is where the operating system fails the call, if it
\* does.  Returns the file left on disk and the boolean result.
SaveGame(file, gs, fault) ==
    CASE fault = "open"  -> [file |-> file, result |-> FALSE]
      [] fault = "write" -> [file |-> PartialFile, result |-> FALSE]
      [] OTHER           -> [file |-> Written(gs), result |-> TRUE]

\* game_utils.load_game: the document, or None (here [ok |-> FALSE]).
LoadGame(file) ==
    IF file.state = "written" THEN [ok |-> TRUE, doc |-> JsonLoad(file.doc)] ELSE [ok |-> FALSE]

\* The keys a saved document may omit.
OptionalKeys ==
    {"current_location", "location_description", "current_goal", "completed_goals",
     "custom_title"}

Omit(d, keys) == [k \in DOMAIN d \ keys |-> d[k]]

\* The state an earlier run saved on entering its game loop: the default
\* world, a player the service named, the default title.
SavedPlayerData ==
    [player_name |-> "Mara", player_background |-> "A former temple scribe.",
     starting_items |-> <<"lantern">>, starting_location |-> "Temple Entrance",
     location_description |-> "Steps lead down into the dark."]

SavedState ==
    Put(CreatePlayerWith(InitializeGameWith(NewGameState, EmptyDict), SavedPlayerData).gs,
        "custom_title", DefaultTitle)

\* The same state with the optional values empty.
SavedStateEmptyValues ==
    Put(Put(Put(Put(SavedState, "current_location", ""), "location_description", ""),
            "current_goal", ""), "completed_goals", <<>>)

\* What an earlier run or another writer of the format can have left in
\* savegame.json: nothing, a file cut short, the saved state, the saved state
\* with its optional values empty, and the saved state with one or all of
\* the optional keys omitted.
SavedFiles ==
    << NoFile,
       PartialFile,
       Written(SavedState),
       Written(SavedStateEmptyValues),
       Written(Omit(SavedState, {"current_location"})),
       Written(Omit(SavedState, {"location_description"})),
       Written(Omit(SavedState, {"current_goal"})),
       Written(Omit(SavedState, {"completed_goals"})),
       Written(Omit(SavedState, {"custom_title"})),
       Written(Omit(SavedState, OptionalKeys)) >>

\* valid_voices of game_utils.set_narration_voice, voices of change_narration_voice
Voices == <<"alloy", "echo", "fable", "onyx", "nova", "shimmer">>

\* Keyboard input: int(input(...)) succeeds with n or raises ValueError.
Number(n) == [isnum |-> TRUE, n |-> n]
NotANumber == [isnum |-> FALSE, n |-> 0]

TurnInputs  == {Number(0), Number(1), Number(12), NotANumber}
MenuInputs  == TurnInputs \cup {Number(n) : n \in 5..9}
VoiceInputs == {Number(4), Number(7), NotANumber}
TitleOptionInputs == {Number(0), Number(1), Number(2), Number(3), NotANumber}
\* A typed title, as its words.
TitleInputs == {<<>>, <<"LA", "MAGIE">>}

\* new_title.split(maxsplit=1): the first word and the rest.
SplitTitle(new_title) ==
    IF Len(new_title) = 1
    THEN [title1 |-> new_title[1], title2 |-> <<>>]
    ELSE [title1 |-> Head(new_title), title2 |-> Tail(new_title)]

\* customize_game_title assigning a new game_state that holds the title, in
\* place of assigning the key custom_title of the game_state there is.
CustomizeGameTitleWith_NewState(gs, option, new_title, confirmed) ==
    IF ~option.isnum THEN gs
    ELSE IF option.n = 0 THEN gs
    ELSE IF option.n = 2 THEN Put(NewGameState, "custom_title", DefaultTitle)
    ELSE IF option.n # 1 THEN gs
    ELSE IF new_title = <<>> THEN gs
    ELSE IF confirmed THEN Put(NewGameState, "custom_title", SplitTitle(new_title))
    ELSE gs

\* Game.customize_game_title
CustomizeGameTitleWith(gs, option, new_title, confirmed) ==
    IF ~option.isnum THEN gs
    ELSE IF option.n = 0 THEN gs
    ELSE IF option.n = 2 THEN Put(gs, "custom_title", DefaultTitle)
    ELSE IF option.n # 1 THEN gs
    ELSE IF new_title = <<>> THEN gs
    ELSE IF confirmed THEN Put(gs, "custom_title", SplitTitle(new_title))
    ELSE gs

-----------------------------------------------------------------------------
(* The program: run_game and what it calls *)

\* A fresh process: Game() and the module globals of game_utils, with
\* whatever an earlier run left on disk.
InitWith(files) ==
    /\ game_state = NewGameState
    /\ pc = "start"
    /\ choices = <<>>
    /\ savefile \in files
    /\ NARRATION_ENABLED = FALSE
    /\ NARRATION_VOICE = "nova"
    /\ raised = ""

Init == InitWith({NoFile, PartialFile})
\* The first run: nothing on disk.
InitFirstRun == InitWith({NoFile})

\* run_game, src/main.py:451-465 with the answer "y" to an existing file.
RunGameLoad ==
    /\ pc = "start"
    /\ savefile.state # "absent"
    /\ LET loaded_state == LoadGame(savefile)
       IN  IF loaded_state.ok /\ DOMAIN loaded_state.doc # {}
           THEN IF HasKey(loaded_state.doc, "player") /\ HasKey(loaded_state.doc["player"], "name")
                THEN /\ game_state' = loaded_state.doc
                     /\ pc' = "status"
                     /\ raised' = raised
                ELSE /\ game_state' = loaded_state.doc
                     /\ pc' = "crashed"
                     /\ raised' = "KeyError"
           ELSE /\ pc' = "new"
                /\ UNCHANGED <<game_state, raised>>
    /\ UNCHANGED <<choices, savefile, NARRATION_ENABLED, NARRATION_VOICE>>

\* run_game: no file, or the answer "n".
RunGameNew ==
    /\ pc = "start"
    /\ pc' = "new"
    /\ UNCHANGED <<game_state, choices, savefile, NARRATION_ENABLED, NARRATION_VOICE, raised>>

\* Game.initialize_game
InitializeGame(reply) ==
    /\ pc = "new"
    /\ IF GenerateJsonRaises(reply.resp) # ""
       THEN /\ game_state' = game_state
            /\ pc' = "crashed"
            /\ raised' = GenerateJsonRaises(reply.resp)
       ELSE /\ game_state' = InitializeGameWith(game_state, GenerateJson(reply.resp))
            /\ pc' = "create"
            /\ raised' = raised
    /\ UNCHANGED <<choices, savefile, NARRATION_ENABLED, NARRATION_VOICE>>

\* Game.create_player
CreatePlayer(reply) ==
    /\ pc = "create"
    /\ IF GenerateJsonRaises(reply.resp) # ""
       THEN /\ game_state' = game_state
            /\ pc' = "crashed"
            /\ raised' = GenerateJsonRaises(reply.resp)
       ELSE LET out == CreatePlayerWith(game_state, GenerateJson(reply.resp))
            IN  /\ game_state' = out.gs
                /\ raised' = out.raised
                /\ pc' = IF out.raised = "" THEN "intro" ELSE "crashed"
    /\ UNCHANGED <<choices, savefile, NARRATION_ENABLED, NARRATION_VOICE>>

\* _start_new_game after create_player, src/main.py:512-544
StartNewGameIntro ==
    /\ pc = "intro"
    /\ game_state' = IF HasKey(game_state, "custom_title") THEN game_state
                     ELSE Put(game_state, "custom_title", DefaultTitle)
    /\ pc' = "status"
    /\ UNCHANGED <<choices, savefile, NARRATION_ENABLED, NARRATION_VOICE, raised>>

\* Game.display_game_status: subscripts current_location and inventory.
DisplayGameStatus ==
    /\ pc = "status"
    /\ IF HasKey(game_state, "current_location") /\ HasKey(game_state, "inventory")
       THEN pc' = "choices" /\ raised' = raised
       ELSE pc' = "crashed" /\ raised' = "KeyError"
    /\ UNCHANGED <<game_state, choices, savefile, NARRATION_ENABLED, NARRATION_VOICE>>

\* Game.get_player_choices
GetPlayerChoices(reply) ==
    /\ pc = "choices"
    /\ IF GenerateJsonRaises(reply.resp) # ""
       THEN /\ choices' = choices
            /\ pc' = "crashed"
            /\ raised' = GenerateJsonRaises(reply.resp)
       ELSE /\ choices' = GetPlayerChoicesWith(GenerateJson(reply.resp))
            /\ pc' = "menu"
            /\ raised' = raised
    /\ UNCHANGED <<game_state, savefile, NARRATION_ENABLED, NARRATION_VOICE>>

\* choice 0
Quit(inp) ==
    /\ pc = "menu"
    /\ inp.isnum /\ inp.n = 0
    /\ pc' = "quit"
    /\ UNCHANGED <<game_state, choices, savefile, NARRATION_ENABLED, NARRATION_VOICE, raised>>

\* choice 5: Game.save_current_game
SaveCurrentGame(inp, fault) ==
    /\ pc = "menu"
    /\ inp.isnum /\ inp.n = 5
    /\ savefile' = SaveGame(savefile, game_state, fault).file
    /\ pc' = "status"
    /\ UNCHANGED <<game_state, choices, NARRATION_ENABLED, NARRATION_VOICE, raised>>

\* choice 6: Game.toggle_narration
ToggleNarration(inp) ==
    /\ pc = "menu"
    /\ inp.isnum /\ inp.n = 6
    /\ NARRATION_ENABLED' = ~NARRATION_ENABLED
    /\ pc' = "status"
    /\ UNCHANGED <<game_state, choices, savefile, NARRATION_VOICE, raised>>

\* choice 7: Game.change_narration_voice
ChangeNarrationVoice(inp, voice_inp) ==
    /\ pc = "menu"
    /\ inp.isnum /\ inp.n = 7
    /\ NARRATION_VOICE' = IF voice_inp.isnum /\ 1 <= voice_inp.n /\ voice_inp.n <= Len(Voices)
                          THEN Voices[voice_inp.n]
                          ELSE NARRATION_VOICE
    /\ pc' = "status"
    /\ UNCHANGED <<game_state, choices, savefile, NARRATION_ENABLED, raised>>

\* choice 8: Game.view_goal_history
ViewGoalHistory(inp) ==
    /\ pc = "menu"
    /\ inp.isnum /\ inp.n = 8
    /\ pc' = "status"
    /\ UNCHANGED <<game_state, choices, savefile, NARRATION_ENABLED, NARRATION_VOICE, raised>>

\* choice 9: Game.customize_game_title
CustomizeGameTitle(inp, option, new_title, confirmed) ==
    /\ pc = "menu"
    /\ inp.isnum /\ inp.n = 9
    /\ game_state' = CustomizeGameTitleWith(game_state, option, new_title, confirmed)
    /\ pc' = "status"
    /\ UNCHANGED <<choices, savefile, NARRATION_ENABLED, NARRATION_VOICE, raised>>

\* choices 1..len(choices): Game.process_player_action(choices[choice_num-1])
ProcessPlayerAction(inp, reply) ==
    /\ pc = "menu"
    /\ inp.isnum /\ inp.n \notin {0, 5, 6, 7, 8, 9}
    /\ 1 <= inp.n /\ inp.n <= Len(choices)
    /\ Len(game_state["history"]) < MaxHistory
    /\ LET action_result == GenerateJson(reply.resp)
       IN  IF GenerateJsonRaises(reply.resp) # ""
           THEN /\ game_state' = game_state
                /\ pc' = "crashed"
                /\ raised' = GenerateJsonRaises(reply.resp)
           ELSE IF Accepted(action_result) /\ GoalUpdateRaises(game_state, action_result)
           THEN /\ game_state' = ApplyBeforeGoal(game_state, choices[inp.n], action_result)
                /\ pc' = "crashed"
                /\ raised' = "KeyError"
           ELSE /\ game_state' = ProcessPlayerActionWith(game_state, choices[inp.n], action_result)
                /\ pc' = "status"
                /\ raised' = raised
    /\ UNCHANGED <<choices, savefile, NARRATION_ENABLED, NARRATION_VOICE>>

\* any other number, or not a number
InvalidChoice(inp) ==
    /\ pc = "menu"
    /\ \/ ~inp.isnum
       \/ inp.isnum /\ inp.n \notin {0, 5, 6, 7, 8, 9} /\ ~(1 <= inp.n /\ inp.n <= Len(choices))
    /\ pc' = "status"
    /\ UNCHANGED <<game_state, choices, savefile, NARRATION_ENABLED, NARRATION_VOICE, raised>>

NewGame(i) == InitializeGame(WorldReplies[i])
NewPlayer(i) == CreatePlayer(PlayerReplies[i])
OfferChoices(i) == GetPlayerChoices(ChoiceReplies[i])
ResolveAction(inp, i) == ProcessPlayerAction(inp, OutcomeReplies[i])
ResolveBasic(inp, i) == ProcessPlayerAction(inp, BasicReplies[i])

\* A run of the game in which the player resolves actions, gives invalid
\* input or quits, under every reply of OutcomeReplies.
NextTurns ==
    \/ RunGameNew
    \/ \E i \in 1..Len(WorldReplies) : NewGame(i)
    \/ \E i \in 1..Len(PlayerReplies) : NewPlayer(i)
    \/ StartNewGameIntro
    \/ DisplayGameStatus
    \/ \E i \in 1..Len(ChoiceReplies) : OfferChoices(i)
    \/ \E inp \in TurnInputs : Quit(inp)
    \/ \E inp \in TurnInputs, i \in 1..Len(OutcomeReplies) : ResolveAction(inp, i)
    \/ \E inp \in TurnInputs : InvalidChoice(inp)

SpecTurns == InitFirstRun /\ [][NextTurns]_vars

MaxReordered == 1

ResolveOrdered(inp, i) ==
    /\ Len(game_state["history"]) < MaxReordered
    /\ ProcessPlayerAction(inp, OrderReplies[i])

\* A run of the game in which every action is resolved by a reply of
\* OrderReplies.
NextOrder ==
    \/ RunGameNew
    \/ \E i \in 1..Len(WorldReplies) : NewGame(i)
    \/ \E i \in 1..Len(PlayerReplies) : NewPlayer(i)
    \/ StartNewGameIntro
    \/ DisplayGameStatus
    \/ \E i \in 1..Len(ChoiceReplies) : OfferChoices(i)
    \/ \E inp \in TurnInputs : Quit(inp)
    \/ \E inp \in TurnInputs, i \in 1..Len(OrderReplies) : ResolveOrdered(inp, i)
    \/ \E inp \in TurnInputs : InvalidChoice(inp)

SpecOrder == InitFirstRun /\ [][NextOrder]_vars

\* A fresh process with any of SavedFiles on disk.
InitSaved ==
    /\ game_state = NewGameState
    /\ pc = "start"
    /\ choices = <<>>
    /\ \E n \in 1..Len(SavedFiles) : savefile = SavedFiles[n]
    /\ NARRATION_ENABLED = FALSE
    /\ NARRATION_VOICE = "nova"
    /\ raised = ""

SaveInputs == TurnInputs \cup {Number(5), Number(8)}

\* A run of the game that loads what is on disk or starts anew, plays under
\* the replies of BasicReplies and saves, with and without faults.
NextSaved ==
    \/ RunGameLoad
    \/ RunGameNew
    \/ \E i \in 1..Len(WorldReplies) : NewGame(i)
    \/ \E i \in 1..Len(PlayerReplies) : NewPlayer(i)
    \/ StartNewGameIntro
    \/ DisplayGameStatus
    \/ \E i \in 1..Len(ChoiceReplies) : OfferChoices(i)
    \/ \E inp \in SaveInputs : Quit(inp)
    \/ \E inp \in SaveInputs, fault \in {"none", "open", "write"} : SaveCurrentGame(inp, fault)
    \/ \E inp \in SaveInputs : ViewGoalHistory(inp)
    \/ \E inp \in SaveInputs, i \in 1..Len(BasicReplies) : ResolveBasic(inp, i)
    \/ \E inp \in SaveInputs : InvalidChoice(inp)

SpecSaved == InitSaved /\ [][NextSaved]_vars

ParseWorld(i) == InitializeGame(ParseReplies[i])

\* A run of the game whose world prompt is answered by a reply of
\* ParseReplies.
NextParse ==
    \/ RunGameNew
    \/ \E i \in 1..Len(ParseReplies) : ParseWorld(i)
    \/ \E i \in 1..Len(PlayerReplies) : NewPlayer(i)
    \/ StartNewGameIntro
    \/ DisplayGameStatus
    \/ \E i \in 1..Len(ChoiceReplies) : OfferChoices(i)
    \/ \E inp \in TurnInputs : Quit(inp)
    \/ \E inp \in TurnInputs, i \in 1..Len(BasicReplies) : ResolveBasic(inp, i)
    \/ \E inp \in TurnInputs : InvalidChoice(inp)

SpecParse == InitFirstRun /\ [][NextParse]_vars

\* A run of the game with every entry of the menu, under the replies of
\* BasicReplies.
Next ==
    \/ RunGameLoad
    \/ RunGameNew
    \/ \E i \in 1..Len(WorldReplies) : NewGame(i)
    \/ \E i \in 1..Len(PlayerReplies) : NewPlayer(i)
    \/ StartNewGameIntro
    \/ DisplayGameStatus
    \/ \E i \in 1..Len(ChoiceReplies) : OfferChoices(i)
    \/ \E inp \in MenuInputs : Quit(inp)
    \/ \E inp \in MenuInputs, fault \in {"none", "open", "write"} : SaveCurrentGame(inp, fault)
    \/ \E inp \in MenuInputs : ToggleNarration(inp)
    \/ \E inp \in MenuInputs, v \in VoiceInputs : ChangeNarrationVoice(inp, v)
    \/ \E inp \in MenuInputs : ViewGoalHistory(inp)
    \/ \E inp \in MenuInputs, o \in TitleOptionInputs, t \in TitleInputs, c \in BOOLEAN :
          CustomizeGameTitle(inp, o, t, c)
    \/ \E inp \in MenuInputs, i \in 1..Len(BasicReplies) : ResolveBasic(inp, i)
    \/ \E inp \in MenuInputs : InvalidChoice(inp)

Spec == Init /\ [][Next]_vars

-----------------------------------------------------------------------------
(* Properties *)

history         == game_state["history"]
inventory       == game_state["inventory"]
current_goal    == game_state["current_goal"]
completed_goals == game_state["completed_goals"]

\* The reply carries an outcome: a document with the action_result field.
IsOutcome(reply) == reply.kind = "json" /\ Says(reply, "action_result")

\* The value of an optional list or string field of the reply's document.
ListField(reply, k) == IF Says(reply, k) THEN Said(reply, k) ELSE <<>>
TextField(reply, k) == IF Says(reply, k) THEN Said(reply, k) ELSE ""

LastResult == IF Len(history) = 0 THEN "" ELSE history[Len(history)].result

\* C1: when process_player_action accepts an outcome whose goal_completed is
\* true, the active goal is in completed_goals afterwards (appended once,
\* not again if it was there), and current_goal is the non-empty new_goal
\* of the outcome, or else empty.
C1_GoalCompletedTransition ==
    [][\A inp \in TurnInputs, i \in 1..Len(OutcomeReplies) :
        LET reply == OutcomeReplies[i] IN
        (ResolveAction(inp, i) /\ IsOutcome(reply)
            /\ Says(reply, "goal_completed") /\ Said(reply, "goal_completed"))
        => /\ game_state'["completed_goals"] =
                IF current_goal # "" /\ ~InList(current_goal, completed_goals)
                THEN Append(completed_goals, current_goal)
                ELSE completed_goals
           /\ game_state'["current_goal"] = TextField(reply, "new_goal")]_vars

\* C2: completed_goals never contains the active (non-empty) current_goal.
C2_CompletedExcludesCurrent ==
    current_goal # "" => ~InList(current_goal, completed_goals)

\* C3: each of the four intents completes without raising, whatever the
\* service replies, and leaves a complete value: a story context, a player
\* with name, background, inventory and location, four choices, one more
\* history entry.
C3_IntentsNeverRaise ==
    [][/\ (\E i \in 1..Len(WorldReplies) : NewGame(i))
            => raised' = "" /\ DOMAIN game_state'["story_context"] # {}
       /\ (\E i \in 1..Len(PlayerReplies) : NewPlayer(i))
            => /\ raised' = ""
               /\ DOMAIN game_state'["player"] = {"name", "background"}
               /\ HasKey(game_state', "location_description")
       /\ (\E i \in 1..Len(ChoiceReplies) : OfferChoices(i))
            => raised' = "" /\ Len(choices') = 4
       /\ (\E inp \in TurnInputs, i \in 1..Len(OutcomeReplies) : ResolveAction(inp, i))
            => raised' = "" /\ Len(game_state'["history"]) = Len(history) + 1]_vars

C5_InitialGoal ==
    [][(\E i \in 1..Len(WorldReplies) : NewGame(i))
        => LET story_context == game_state'["story_context"] IN
           game_state'["current_goal"] =
               IF HasKey(story_context, "initial_goal")
               THEN story_context["initial_goal"]
               ELSE ""]_vars

C8_HistoryAppendOnly ==
    [][/\ \A inp \in MenuInputs, i \in 1..Len(BasicReplies) :
            LET reply == BasicReplies[i] IN
            ResolveBasic(inp, i)
            => game_state'["history"] =
                 Append(history,
                        [action |-> choices[inp.n],
                         result |-> IF IsOutcome(reply) THEN Said(reply, "action_result")
                                    ELSE "Nothing significant happened."])
       /\ (/\ pc \in {"status", "choices", "menu"}
           /\ ~(\E inp \in MenuInputs, i \in 1..Len(BasicReplies) : ResolveBasic(inp, i)))
          => HasKey(game_state', "history") /\ game_state'["history"] = history]_vars

\* Two actions were resolved, an outcome then a fallback, and the game was
\* saved and retitled on the way.
C8_Witness ==
    /\ pc = "status"
    /\ Len(history) = 2
    /\ history[1].result = "You find a key."
    /\ history[2].result = "Nothing significant happened."
    /\ savefile.state = "written"
    /\ game_state["custom_title"].title1 = "LA"
    /\ NARRATION_ENABLED

\* C9 as stated: if items_lost of an accepted outcome contains a name that
\* is absent from inventory, inventory is unchanged and no error is raised.
C9_AnyAbsentNameNoChange ==
    [][\A inp \in TurnInputs, i \in 1..Len(OutcomeReplies) :
        LET reply == OutcomeReplies[i]
            items_lost == ListField(reply, "items_lost")
        IN  (/\ ResolveAction(inp, i)
             /\ IsOutcome(reply)
             /\ \E j \in 1..Len(items_lost) : ~InList(items_lost[j], inventory))
            => game_state'["inventory"] = inventory /\ raised' = ""]_vars

\* C9 amended: if every name in items_lost of an accepted outcome is absent
\* from inventory (the items gained by the same outcome included), nothing
\* is removed and no error is raised: inventory is the earlier inventory
\* followed by items_gained, hence unchanged when the outcome gains nothing.
C9_AllAbsentNoRemoval ==
    [][\A inp \in TurnInputs, i \in 1..Len(OutcomeReplies) :
        LET reply == OutcomeReplies[i]
            items_lost == ListField(reply, "items_lost")
            items_gained == ListField(reply, "items_gained")
        IN  (/\ ResolveAction(inp, i)
             /\ IsOutcome(reply)
             /\ items_lost # <<>>
             /\ \A j \in 1..Len(items_lost) : ~InList(items_lost[j], inventory \o items_gained))
            => game_state'["inventory"] = inventory \o items_gained /\ raised' = ""]_vars

\* The outcome that loses a wand was applied to an inventory without one.
C9_Witness ==
    /\ pc = "status"
    /\ LastResult = "You have no wand to lose."
    /\ inventory = <<"torch">>

\* C10: an accepted outcome (that loses nothing) appends its items_gained to
\* the end of inventory in the given order, keeping the existing items and
\* their order and allowing duplicates.
C10_GainsAppended ==
    [][\A inp \in TurnInputs, i \in 1..Len(OutcomeReplies) :
        LET reply == OutcomeReplies[i] IN
        (/\ ResolveAction(inp, i)
         /\ IsOutcome(reply)
         /\ Says(reply, "items_gained")
         /\ ListField(reply, "items_lost") = <<>>)
        => game_state'["inventory"] = inventory \o Said(reply, "items_gained")]_vars

\* [torch] became [torch, key, gem].
C10_Witness ==
    /\ pc = "status"
    /\ LastResult = "You find a key and a gem."
    /\ inventory = <<"torch", "key", "gem">>


characters_met == game_state["characters_met"]

NoDuplicates(lst) == \A i, j \in 1..Len(lst) : lst[i] = lst[j] => i = j

\* C11: characters_met never holds a name twice: an accepted outcome whose
\* character_encountered is already in characters_met leaves the list as it
\* is (the name stays at the position of its first encounter), and a new
\* name is appended at the end.
C11_CharactersMetOnce ==
    /\ [](HasKey(game_state, "characters_met") => NoDuplicates(characters_met))
    /\ [][\A inp \in TurnInputs, i \in 1..Len(OutcomeReplies) :
            LET reply == OutcomeReplies[i]
                character == TextField(reply, "character_encountered")
            IN  (ResolveAction(inp, i) /\ IsOutcome(reply))
                => game_state'["characters_met"] =
                     IF character = "" \/ InList(character, characters_met)
                     THEN characters_met
                     ELSE Append(characters_met, character)]_vars

\* The sage was met in two outcomes in a row and is listed once.
C11_Witness ==
    /\ pc = "status"
    /\ Len(history) = 2
    /\ history[1].result = "You meet the sage."
    /\ history[2].result = "You meet the sage."
    /\ characters_met = <<"Old Sage">>

\* C12: each goal is in completed_goals at most once: goal_completed on a
\* current goal that is already in completed_goals appends nothing.
C12_GoalsCompletedOnce ==
    /\ [](HasKey(game_state, "completed_goals") => NoDuplicates(completed_goals))
    /\ [][\A inp \in TurnInputs, i \in 1..Len(OutcomeReplies) :
            LET reply == OutcomeReplies[i] IN
            (/\ ResolveAction(inp, i)
             /\ IsOutcome(reply)
             /\ Says(reply, "goal_completed") /\ Said(reply, "goal_completed")
             /\ InList(current_goal, completed_goals))
            => game_state'["completed_goals"] = completed_goals]_vars

\* The same goal was completed by two outcomes and is listed once.
C12_Witness ==
    /\ pc = "status"
    /\ Len(history) = 2
    /\ history[1].result = "It is done."
    /\ history[2].result = "It is done."
    /\ completed_goals = <<current_goal>>

\* C18: an accepted outcome whose goal_completed is false or absent leaves
\* current_goal and completed_goals unchanged, also when it supplies a
\* new_goal.
C18_NoTransitionWithoutCompletion ==
    [][\A inp \in TurnInputs, i \in 1..Len(OutcomeReplies) :
        LET reply == OutcomeReplies[i] IN
        (/\ ResolveAction(inp, i)
         /\ IsOutcome(reply)
         /\ ~(Says(reply, "goal_completed") /\ Said(reply, "goal_completed")))
        => /\ game_state'["current_goal"] = current_goal
           /\ game_state'["completed_goals"] = completed_goals]_vars

\* An outcome with goal_completed false and a new_goal was applied, and the
\* goal is not the new one.
C18_Witness ==
    /\ pc = "status"
    /\ LastResult = "Not yet."
    /\ current_goal = GeneratedGoal
    /\ completed_goals = <<>>

\* C19: an accepted outcome with a non-empty new_location sets
\* current_location to it and location_description to the outcome's
\* description, or to "" when it has none; with new_location absent or
\* empty both stay as they were, also when a description is supplied.
C19_LocationOverwrite ==
    [][\A inp \in TurnInputs, i \in 1..Len(OutcomeReplies) :
        LET reply == OutcomeReplies[i] IN
        (ResolveAction(inp, i) /\ IsOutcome(reply))
        => IF TextField(reply, "new_location") # ""
           THEN /\ game_state'["current_location"] = Said(reply, "new_location")
                /\ game_state'["location_description"] = TextField(reply, "location_description")
           ELSE /\ game_state'["current_location"] = game_state["current_location"]
                /\ game_state'["location_description"] = game_state["location_description"]]_vars

\* The player moved to a place the outcome did not describe.
C19_Witness ==
    /\ pc = "status"
    /\ LastResult = "You walk on."
    /\ game_state["current_location"] = "Stairs"
    /\ game_state["location_description"] = ""


\* Every order in which the six steps can be applied.
Orders ==
    {order \in [1..Len(ListedOrder) -> {ListedOrder[k] : k \in 1..Len(ListedOrder)}] :
        \A i, j \in 1..Len(ListedOrder) : order[i] = order[j] => i = j}

Position(order, name) == CHOOSE k \in 1..Len(order) : order[k] = name

GainsBeforeLosses(order) == Position(order, "items_gained") < Position(order, "items_lost")

\* C13 as stated: whatever the order in which the six steps of an accepted
\* outcome are applied, the state is the one the listed order gives.
C13_AnyOrderSameState ==
    [][\A inp \in TurnInputs, i \in 1..Len(OrderReplies) :
        LET reply == OrderReplies[i] IN
        (ResolveOrdered(inp, i) /\ IsOutcome(reply))
        => \A order \in Orders :
              ApplyInOrder(order, game_state, choices[inp.n], GenerateJson(reply.resp))
                = game_state']_vars

\* C13, amended: every order that applies the items gained before the items
\* lost gives the state the listed order gives; the two inventory steps do
\* not commute.
C13_GainsFirstSameState ==
    [][\A inp \in TurnInputs, i \in 1..Len(OrderReplies) :
        LET reply == OrderReplies[i] IN
        (ResolveOrdered(inp, i) /\ IsOutcome(reply))
        => \A order \in Orders :
              GainsBeforeLosses(order)
              => ApplyInOrder(order, game_state, choices[inp.n], GenerateJson(reply.resp))
                   = game_state']_vars

\* An outcome that drives all six steps was applied.
C13_Witness ==
    /\ pc = "status"
    /\ LastResult = "You trade the torch for a key."
    /\ inventory = <<"key">>
    /\ game_state["current_location"] = "Vault"
    /\ characters_met = <<"Old Sage">>
    /\ current_goal = NextGoal


\* C14: a successful save of the state of the game followed by load_game
\* returns a state equal to the one saved: same keys, same values, same list
\* orders.
C14_SaveLoadRoundTrip ==
    [][\A inp \in SaveInputs :
        SaveCurrentGame(inp, "none")
        => /\ LoadGame(savefile').ok
           /\ DOMAIN LoadGame(savefile').doc = DOMAIN game_state
           /\ LoadGame(savefile').doc = game_state]_vars

\* A game with two turns played was saved, and loading the file gives it back.
C14_Witness ==
    /\ pc = "status"
    /\ Len(history) = 2
    /\ savefile.state = "written"
    /\ LoadGame(savefile).doc = game_state

\* C15: a save that fails leaves the document saved before on disk, intact
\* and loadable.
C15_FailedSaveKeepsFile ==
    [][\A inp \in SaveInputs, fault \in {"open", "write"} :
        (SaveCurrentGame(inp, fault) /\ savefile.state = "written")
        => /\ savefile' = savefile
           /\ LoadGame(savefile').ok]_vars

\* C16: after a document that omits optional keys is loaded,
\* display_game_status and process_player_action run without raising.
C16_OmittedKeysTolerated ==
    [][(\/ DisplayGameStatus
        \/ \E inp \in SaveInputs, i \in 1..Len(BasicReplies) : ResolveBasic(inp, i))
       => raised' = ""]_vars

\* C17: a save that fails returns False and a load that fails returns None;
\* neither raises, game_state is what it was before the call, and the game
\* goes on (to the status display after a save, to a new game after a load).
C17_FailureIsAStatus ==
    [][/\ \A inp \in SaveInputs, fault \in {"open", "write"} :
            SaveCurrentGame(inp, fault)
            => /\ SaveGame(savefile, game_state, fault).result = FALSE
               /\ game_state' = game_state
               /\ raised' = ""
               /\ pc' = "status"
       /\ (RunGameLoad /\ ~LoadGame(savefile).ok)
            => /\ game_state' = game_state
               /\ raised' = ""
               /\ pc' = "new"]_vars

\* The saved game was loaded, a save of it failed while writing, and the
\* state in memory is still the one loaded.
C17_Witness ==
    /\ pc = "status"
    /\ raised = ""
    /\ savefile.state = "partial"
    /\ game_state = SavedState


\* C20: once the game loop is entered, no step of it (the status display,
\* the choices, a resolved action, save, narration toggle, voice change, goal
\* history, title change, invalid input, quit) changes story_context or
\* player.
C20_ContextAndPlayerFrozen ==
    [][(pc \in {"status", "choices", "menu"})
       => /\ HasKey(game_state', "story_context")
          /\ HasKey(game_state', "player")
          /\ DOMAIN game_state'["story_context"] = DOMAIN game_state["story_context"]
          /\ DOMAIN game_state'["player"] = DOMAIN game_state["player"]
          /\ game_state'["story_context"] = game_state["story_context"]
          /\ game_state'["player"] = game_state["player"]]_vars

\* Two turns were played, the title was changed and narration switched on;
\* the world and the player are those of the setup.
C20_Witness ==
    /\ pc = "status"
    /\ Len(history) = 2
    /\ NARRATION_ENABLED
    /\ HasKey(game_state, "custom_title")
    /\ game_state["custom_title"] = SplitTitle(<<"LA", "MAGIE">>)
    /\ game_state["player"] = [name |-> "Mira", background |-> "A runaway scribe"]
    /\ HasKey(game_state["story_context"], "theme")
    /\ game_state["story_context"]["theme"] = "Haunted crypt"


\* The mapping of the document a reply carries, read off the members as
\* sent: a key written twice keeps its later value.  A reply that carries no
\* document gives the empty mapping.
DocumentSent(reply) ==
    LET ms == reply.members
        last(k) == CHOOSE i \in 1..Len(ms) :
                      /\ ms[i].key = k
                      /\ \A n \in (i + 1)..Len(ms) : ms[n].key # k
    IN  IF reply.kind = "json"
        THEN [k \in {ms[i].key : i \in 1..Len(ms)} |-> ms[last(k)].val]
        ELSE EmptyDict

\* C21: generate_json never raises and returns the mapping of the document
\* in the response, whether the document is the whole text or lies between
\* the first opening and the last closing brace of it; it returns the empty
\* mapping when the text holds no such document, is empty, or the service
\* call failed.
C21_TwoStageParseNeverRaises ==
    [][\A i \in 1..Len(ParseReplies) :
        LET reply == ParseReplies[i] IN
        ParseWorld(i)
        => /\ GenerateJsonRaises(reply.resp) = ""
           /\ raised' = ""
           /\ DOMAIN GenerateJson(reply.resp) = DOMAIN DocumentSent(reply)
           /\ GenerateJson(reply.resp) = DocumentSent(reply)]_vars

====
